---- MODULE Spec2Model ----
(***************************************************************************)
(* PX4 firmware index updater (Tools/manifest/update_firmware_index.py)    *)
(* and release manifest generator (Tools/manifest/gen_release_manifest.py).*)
(*                                                                         *)
(* A string is a sequence of one-character strings, so that the version    *)
(* parser and the channel classifier are modelled by what they do to the   *)
(* characters.  A JSON object is a function from its keys; an optional     *)
(* key is a key that may be missing from the DOMAIN.                       *)
(***************************************************************************)
EXTENDS Integers, Sequences, FiniteSets, TLC

(***************************************************************************)
(* Characters.                                                             *)
(***************************************************************************)
DigitChars == <<"0", "1", "2", "3", "4", "5", "6", "7", "8", "9">>

LowerChars == <<"a", "b", "c", "d", "e", "f", "g", "h", "i", "j", "k", "l", "m",
                "n", "o", "p", "q", "r", "s", "t", "u", "v", "w", "x", "y", "z">>

UpperChars == <<"A", "B", "C", "D", "E", "F", "G", "H", "I", "J", "K", "L", "M",
                "N", "O", "P", "Q", "R", "S", "T", "U", "V", "W", "X", "Y", "Z">>

Range(f) == {f[i] : i \in DOMAIN f}

\* \d of the two regular expressions, on the ASCII characters of the model
Digit == Range(DigitChars)

\* [a-zA-Z] of the parser's regular expression
Letter == Range(LowerChars) \cup Range(UpperChars)

IndexIn(chars, c) == CHOOSE i \in DOMAIN chars : chars[i] = c

\* int() of one decimal digit
DigitVal(c) == IndexIn(DigitChars, c) - 1

\* code point order of the lower-case letters
LetterOrd(c) == IndexIn(LowerChars, c)

\* str.lower() of one character
LowerChar(c) == IF c \in Range(UpperChars) THEN LowerChars[IndexIn(UpperChars, c)] ELSE c

\* str.lower()
LowerStr(s) == [i \in 1..Len(s) |-> LowerChar(s[i])]

RECURSIVE ToIntFrom(_, _, _)
ToIntFrom(s, i, acc) ==
    IF i > Len(s) THEN acc ELSE ToIntFrom(s, i + 1, acc * 10 + DigitVal(s[i]))

\* int() of a non-empty string of decimal digits
ToInt(s) == ToIntFrom(s, 1, 0)

\* the first position j >= i of s that is past the end or holds no character of class
RECURSIVE SpanEnd(_, _, _)
SpanEnd(s, i, class) ==
    IF i > Len(s) \/ s[i] \notin class THEN i ELSE SpanEnd(s, i + 1, class)

\* str.lstrip(c): every leading c is removed
RECURSIVE LStrip(_, _)
LStrip(s, c) ==
    IF Len(s) > 0 /\ s[1] = c THEN LStrip(Tail(s), c) ELSE s

\* s[i:].startswith(t)
StartsWithAt(s, i, t) ==
    /\ i + Len(t) - 1 <= Len(s)
    /\ \A k \in 1..Len(t) : s[i + k - 1] = t[k]

\* t in s (substring search, scanning the start positions left to right)
RECURSIVE ContainsFrom(_, _, _)
ContainsFrom(s, t, i) ==
    IF i + Len(t) - 1 > Len(s) THEN FALSE
    ELSE IF StartsWithAt(s, i, t) THEN TRUE
    ELSE ContainsFrom(s, t, i + 1)

Contains(s, t) == ContainsFrom(s, t, 1)

\* a < b for two strings of lower-case letters (Python's str comparison)
RECURSIVE StrLessFrom(_, _, _)
StrLessFrom(a, b, i) ==
    IF i > Len(b) THEN FALSE
    ELSE IF i > Len(a) THEN TRUE
    ELSE IF a[i] # b[i] THEN LetterOrd(a[i]) < LetterOrd(b[i])
    ELSE StrLessFrom(a, b, i + 1)

StrLess(a, b) == StrLessFrom(a, b, 1)

(***************************************************************************)
(* The version parser.                                                     *)
(***************************************************************************)
TagZzz == <<"z", "z", "z">>

\* the tuple of an unparseable version
SentinelTuple == <<0, 0, 0, TagZzz, 0>>

NoMatch == [ok |-> FALSE, g1 |-> <<>>, g2 |-> <<>>, g3 |-> <<>>, g4 |-> <<>>, g5 |-> <<>>]

\* re.match(r"(\d+)\.(\d+)\.(\d+)(?:-([a-zA-Z]+)(\d+)?)?", v): anchored at the
\* start only; an empty group stands for a group that did not take part
VersionMatch(v) ==
    LET e1 == SpanEnd(v, 1, Digit)
        e2 == SpanEnd(v, e1 + 1, Digit)
        e3 == SpanEnd(v, e2 + 1, Digit)
        e4 == SpanEnd(v, e3 + 1, Letter)
        e5 == SpanEnd(v, e4, Digit)
        core == /\ e1 > 1
                /\ e1 <= Len(v) /\ v[e1] = "."
                /\ e2 > e1 + 1
                /\ e2 <= Len(v) /\ v[e2] = "."
                /\ e3 > e2 + 1
        pre == /\ e3 <= Len(v) /\ v[e3] = "-"
               /\ e4 > e3 + 1
    IN  IF ~core THEN NoMatch
        ELSE [ok |-> TRUE,
              g1 |-> SubSeq(v, 1, e1 - 1),
              g2 |-> SubSeq(v, e1 + 1, e2 - 1),
              g3 |-> SubSeq(v, e2 + 1, e3 - 1),
              g4 |-> IF pre THEN SubSeq(v, e3 + 1, e4 - 1) ELSE <<>>,
              g5 |-> IF pre THEN SubSeq(v, e4, e5 - 1) ELSE <<>>]

parse_version_tuple(version) ==
    LET v == LStrip(version, "v")
        match == VersionMatch(v)
        prerelease_type == IF match.g4 = <<>> THEN TagZzz ELSE match.g4
        prerelease_num == IF match.g5 = <<>> THEN 0 ELSE ToInt(match.g5)
    IN  IF ~match.ok THEN SentinelTuple
        ELSE <<ToInt(match.g1), ToInt(match.g2), ToInt(match.g3),
               LowerStr(prerelease_type), prerelease_num>>

\* a < b for two tuples of the parser (Python's tuple comparison)
TupleLess(a, b) ==
    \/ a[1] < b[1]
    \/ a[1] = b[1] /\ a[2] < b[2]
    \/ a[1] = b[1] /\ a[2] = b[2] /\ a[3] < b[3]
    \/ a[1] = b[1] /\ a[2] = b[2] /\ a[3] = b[3] /\ StrLess(a[4], b[4])
    \/ a[1] = b[1] /\ a[2] = b[2] /\ a[3] = b[3] /\ a[4] = b[4] /\ a[5] < b[5]

(***************************************************************************)
(* The channel classifier.                                                 *)
(***************************************************************************)
\* re.match(r"^v?\d+\.\d+\.\d+$", version): "$" matches at the end of the
\* string and also just before a newline that ends the string
StableMatch(version) ==
    LET s  == IF Len(version) > 0 /\ version[1] = "v" THEN 2 ELSE 1
        e1 == SpanEnd(version, s, Digit)
        e2 == SpanEnd(version, e1 + 1, Digit)
        e3 == SpanEnd(version, e2 + 1, Digit)
    IN  /\ e1 > s
        /\ e1 <= Len(version) /\ version[e1] = "."
        /\ e2 > e1 + 1
        /\ e2 <= Len(version) /\ version[e2] = "."
        /\ e3 > e2 + 1
        /\ \/ e3 = Len(version) + 1
           \/ e3 = Len(version) /\ version[e3] = "\n"

determine_channel(version) ==
    LET version_lower == LowerStr(version)
    IN  IF StableMatch(version) THEN "stable"
        ELSE IF \/ Contains(version_lower, <<"-", "b", "e", "t", "a">>)
                \/ Contains(version_lower, <<"-", "r", "c">>)
             THEN "beta"
        ELSE "dev"

(***************************************************************************)
(* JSON objects.                                                           *)
(***************************************************************************)
\* key in obj
HasKey(obj, key) == key \in DOMAIN obj

\* obj[key] = value
SetKey(obj, key, value) ==
    [k \in DOMAIN obj \cup {key} |-> IF k = key THEN value ELSE obj[k]]

\* Python's None, as the value of the variable index
None == [none |-> TRUE]

(***************************************************************************)
(* The index and its update.                                               *)
(***************************************************************************)
FormatVersion == 1

create_empty_index(now) ==
    [format_version |-> FormatVersion,
     updated_at |-> now,
     description |-> "PX4 Firmware Release Index",
     releases |-> <<>>]

\* r.get("version", ""), the string the sort key parses
VersionOrEmpty(r) == IF HasKey(r, "version") THEN r.version ELSE <<>>

\* the key of the sort of the releases
SortKey(r) == parse_version_tuple(VersionOrEmpty(r))

\* InsertDescending as a sort that is ascending and then reversed would have it: x
\* goes before the releases of its own key too
RECURSIVE InsertDescendingTiesFirst(_, _)
InsertDescendingTiesFirst(sorted, x) ==
    IF sorted = <<>> THEN <<x>>
    ELSE IF ~TupleLess(SortKey(x), SortKey(Head(sorted))) THEN <<x>> \o sorted
    ELSE <<Head(sorted)>> \o InsertDescendingTiesFirst(Tail(sorted), x)

\* x goes before the first release whose key is smaller than its own
RECURSIVE InsertDescending(_, _)
InsertDescending(sorted, x) ==
    IF sorted = <<>> THEN <<x>>
    ELSE IF TupleLess(SortKey(Head(sorted)), SortKey(x)) THEN <<x>> \o sorted
    ELSE <<Head(sorted)>> \o InsertDescending(Tail(sorted), x)

RECURSIVE SortFrom(_, _, _)
SortFrom(releases, i, sorted) ==
    IF i > Len(releases) THEN sorted
    ELSE SortFrom(releases, i + 1, InsertDescending(sorted, releases[i]))

\* SortReleases without the sort
SortReleasesSkipped(releases) == releases

\* list.sort(key=..., reverse=True): a stable sort, so releases of equal keys
\* keep the order they had
SortReleases(releases) == SortFrom(releases, 1, <<>>)

\* RemoveVersion without the removal
RemoveVersionKeepsAll(releases, version) == releases

\* RemoveVersion by the parsed tuple in place of the version string
RemoveVersionByTuple(releases, version) ==
    SelectSeq(releases, LAMBDA r : SortKey(r) # parse_version_tuple(version))

\* [r for r in releases if r.get("version") != version]
RemoveVersion(releases, version) ==
    SelectSeq(releases, LAMBDA r : ~(HasKey(r, "version") /\ r.version = version))

\* [r for r in releases if r.get("channel") == ch]
ChannelReleases(releases, ch) ==
    SelectSeq(releases, LAMBDA r : HasKey(r, "channel") /\ r.channel = ch)

\* NewEntry with the s3_manifest_url key set whether or not a URL was given
NewEntryAlwaysS3(version, git_tag, build_count, manifest_url, s3_url, now) ==
    [version |-> version,
     git_tag |-> git_tag,
     release_date |-> now,
     channel |-> determine_channel(version),
     build_count |-> build_count,
     manifest_url |-> manifest_url,
     s3_manifest_url |-> s3_url]

NewEntry(version, git_tag, build_count, manifest_url, s3_url, now) ==
    LET new_entry == [version |-> version,
                      git_tag |-> git_tag,
                      release_date |-> now,
                      channel |-> determine_channel(version),
                      build_count |-> build_count,
                      manifest_url |-> manifest_url]
    IN  IF s3_url # "" THEN SetKey(new_entry, "s3_manifest_url", s3_url) ELSE new_entry

LatestKey(ch) ==
    CASE ch = "stable" -> "latest_stable"
      [] ch = "beta" -> "latest_beta"
      [] ch = "dev" -> "latest_dev"

ChannelOrder == <<"stable", "beta", "dev">>

SetLatestWhenAbsent(index, ch) ==
    LET channel_releases == ChannelReleases(index.releases, ch)
    IN  IF channel_releases = <<>> \/ HasKey(index, LatestKey(ch)) THEN index
        ELSE SetKey(index, LatestKey(ch), channel_releases[1].version)

\* index[f"latest_{ch}"] = channel_releases[0]["version"], when the channel has a release
SetLatest(index, ch) ==
    LET channel_releases == ChannelReleases(index.releases, ch)
    IN  IF channel_releases = <<>> THEN index
        ELSE SetKey(index, LatestKey(ch), channel_releases[1].version)

\* channel_releases[0]["version"] raises KeyError when that release has no version
LatestRaises(releases) ==
    \E i \in DOMAIN ChannelOrder :
        LET channel_releases == ChannelReleases(releases, ChannelOrder[i])
        IN  channel_releases # <<>> /\ ~HasKey(channel_releases[1], "version")

\* update_index: [raised |-> a KeyError left the function, index |-> the index it returns].
\* now is the reading of the clock, in days.
update_index(index, version, git_tag, build_count, manifest_url, s3_url, now) ==
    LET new_entry == NewEntry(version, git_tag, build_count, manifest_url, s3_url, now)
        kept == RemoveVersion(index.releases, version)
        appended == Append(kept, new_entry)
        sorted == SortReleases(appended)
        i1 == SetKey(SetKey(index, "releases", sorted), "updated_at", now)
        i2 == SetLatest(i1, "stable")
        i3 == SetLatest(SetLatest(SetLatest(i2, ChannelOrder[1]), ChannelOrder[2]),
                        ChannelOrder[3])
    IN  IF LatestRaises(sorted) THEN [raised |-> TRUE, index |-> i1]
        ELSE [raised |-> FALSE, index |-> i3]

(***************************************************************************)
(* Inputs of the model.                                                    *)
(***************************************************************************)
\* the number of invocations of main in one behaviour
MaxRuns == 2

V_1_2_3 == <<"v", "1", ".", "2", ".", "3">>
V_1_2_3_bare == <<"1", ".", "2", ".", "3">>
V_1_2_3_rc1 == <<"v", "1", ".", "2", ".", "3", "-", "r", "c", "1">>
V_1_2_3_zzzz1 == <<"v", "1", ".", "2", ".", "3", "-", "z", "z", "z", "z", "1">>
V_1_10_0 == <<"v", "1", ".", "1", "0", ".", "0">>
V_0_0_0_alpha1 == <<"v", "0", ".", "0", ".", "0", "-", "a", "l", "p", "h", "a", "1">>
V_garbage == <<"g", "a", "r", "b", "a", "g", "e">>
V_0_9_0_rc1 == <<"v", "0", ".", "9", ".", "0", "-", "r", "c", "1">>

\* the values of --version of the invocations
IndexVersions ==
    {V_1_2_3, V_1_2_3_bare, V_1_2_3_rc1, V_1_2_3_zzzz1, V_1_10_0, V_0_0_0_alpha1, V_garbage}

\* the values of --git-tag, --build-count, --manifest-url and --s3-manifest-url
PayloadA == [git_tag |-> "tagA", build_count |-> 1, manifest_url |-> "urlA", s3_url |-> ""]
PayloadB == [git_tag |-> "tagB", build_count |-> 2, manifest_url |-> "urlB", s3_url |-> "s3B"]
Payloads == {PayloadA, PayloadB}

\* releases of index documents that were not written by this program
PriorEntry(version, channel, p) ==
    [version |-> version, git_tag |-> p.git_tag, release_date |-> 0, channel |-> channel,
     build_count |-> p.build_count, manifest_url |-> p.manifest_url]

EntryStableA == PriorEntry(V_1_2_3, "stable", PayloadA)
EntryStableB == SetKey(PriorEntry(V_1_2_3, "stable", PayloadB), "s3_manifest_url", "s3B")
EntryBeta == PriorEntry(V_1_2_3_rc1, "beta", PayloadA)
\* a release whose channel was edited by hand
EntryEdited == PriorEntry(V_1_2_3_rc1, "stable", PayloadB)
\* a release without a version
EntryNoVersion ==
    [git_tag |-> "tagA", release_date |-> 0, channel |-> "dev",
     build_count |-> 1, manifest_url |-> "urlA"]

PriorDoc(releases) ==
    [format_version |-> FormatVersion, updated_at |-> 0,
     description |-> "PX4 Firmware Release Index", releases |-> releases]

\* latest_* fields that no release backs, and a key the program does not know
Stale(doc) == SetKey(SetKey(doc, "latest_beta", V_0_9_0_rc1), "note", "kept")

\* index documents a file may hold: releases in any order, with or without repeated
\* versions, with or without a version, with or without latest_* fields
LoadableDocs ==
    {PriorDoc(<<>>),
     Stale(PriorDoc(<<>>)),
     PriorDoc(<<EntryStableA>>),
     PriorDoc(<<EntryBeta, EntryStableB>>),
     Stale(PriorDoc(<<EntryStableB, EntryBeta>>)),
     PriorDoc(<<EntryStableA, EntryStableB>>),
     SetKey(PriorDoc(<<EntryEdited>>), "latest_stable", V_1_2_3_rc1),
     PriorDoc(<<EntryNoVersion>>),
     PriorDoc(<<EntryNoVersion, EntryBeta>>)}

\* what the URL serves when the fetch succeeds
RemoteDocs ==
    {PriorDoc(<<>>),
     SetKey(PriorDoc(<<EntryBeta, EntryStableA>>), "latest_dev", V_0_0_0_alpha1)}

\* the number of invocations that made the index two further invocations start from
MaxPrior == 2

\* what open() and json.load() do with the file at --existing-index
LocalOutcomes == {"missing", "invalid_json", "undecodable", "valid"}

\* what urlopen(), read(), decode() and json.loads() do with --fetch-url
FetchOutcomes == {"url_error", "invalid_json", "timeout", "undecodable", "valid"}

(***************************************************************************)
(* The version strings the parser and the classifier are checked on: every *)
(* prefix followed by every core followed by every suffix.                 *)
(***************************************************************************)
\* no "v", one, several, and a capital one
VersionPrefixes ==
    {<<>>, <<"v">>, <<"v", "v">>, <<"V">>}

\* three numbers, numbers of several digits, and cores that are not three numbers
VersionCores ==
    {<<"1", ".", "2", ".", "3">>, <<"0", ".", "0", ".", "0">>,
     <<"1", ".", "1", "0", ".", "0">>, <<"2", ".", "0", ".", "0">>,
     <<"0", "1", ".", "2", ".", "3">>, <<"1", ".", "2">>, <<"1", ".", ".", "3">>, <<>>,
     <<"1", "2">>}

\* none, the known prerelease tags in either case, unknown tags and trailing characters
VersionSuffixes ==
    {<<>>, <<"-">>, <<"-", "r", "c", "1">>, <<"-", "R", "C", "2">>,
     <<"-", "b", "e", "t", "a", "2">>, <<"-", "B", "e", "t", "a">>,
     <<"-", "a", "l", "p", "h", "a", "1">>, <<"-", "d", "e", "v", "7">>,
     <<"-", "b", "e", "t", "a", "e", "x", "t", "r", "a">>, <<"-", "1">>, <<".", "4">>,
     <<"x">>, <<"r", "c", "1">>, <<"-", "r", "c", "1", "x">>,
     <<"-", "x", "-", "r", "c", "1">>, <<"-", "z", "z", "z", "z", "1">>,
     <<"-", "z", "z", "z">>, <<"\n">>}

VersionUniverse ==
    {p \o c \o x : p \in VersionPrefixes, c \in VersionCores, x \in VersionSuffixes}

(***************************************************************************)
(* State.                                                                  *)
(***************************************************************************)
VARIABLES
    pc,        \* the position of main, or of the check of one version string
    clock,     \* the number of the invocation, also the reading of its clock
    disk,      \* the file at --existing-index and --out: [kind, doc, pure]
    index,     \* main's variable index
    pure,      \* index began as create_empty_index() and saw update_index only
    local,     \* what load_existing_index met: "not_supplied" or a local outcome
    remote,    \* what fetch_existing_index met: [outcome, doc], with "not_attempted"
    prior,     \* the index handed to update_index
    args,      \* the arguments of update_index: [version, payload]
    vstr,      \* the version string under check
    vtuple,    \* parse_version_tuple(vstr)
    vchan,     \* determine_channel(vstr)
    manifest,  \* gen_release_manifest.py, main's variable manifest
    out        \* gen_release_manifest.py, the document written to --out or printed

vars == <<pc, clock, disk, index, pure, local, remote, prior, args, vstr, vtuple, vchan,
          manifest, out>>

NoDoc == PriorDoc(<<>>)
NoFetch == [outcome |-> "not_attempted", doc |-> NoDoc]
NoArgs == [version |-> <<>>, payload |-> PayloadA]

Init ==
    /\ pc = "start"
    /\ clock = 1
    /\ \/ \E kind \in LocalOutcomes \ {"valid"} :
              disk = [kind |-> kind, doc |-> NoDoc, pure |-> FALSE]
       \/ \E d \in LoadableDocs : disk = [kind |-> "valid", doc |-> d, pure |-> FALSE]
    /\ index = None
    /\ pure = FALSE
    /\ local = "not_supplied"
    /\ remote = NoFetch
    /\ prior = None
    /\ args = NoArgs
    /\ vstr = <<>>
    /\ vtuple = SentinelTuple
    /\ vchan = "dev"
    /\ manifest = None
    /\ out = None

\* load_existing_index: None for a missing file and for invalid JSON; a file that is
\* not UTF-8 raises UnicodeDecodeError, which nothing catches
load_existing_index(file) ==
    CASE file.kind = "missing" -> [raised |-> FALSE, index |-> None]
      [] file.kind = "invalid_json" -> [raised |-> FALSE, index |-> None]
      [] file.kind = "undecodable" -> [raised |-> TRUE, index |-> None]
      [] file.kind = "valid" -> [raised |-> FALSE, index |-> file.doc]

\* fetch_existing_index: URLError and JSONDecodeError are caught; a timeout while the
\* response is read (TimeoutError) and an undecodable body (UnicodeDecodeError) are not
fetch_existing_index(outcome, doc) ==
    CASE outcome = "url_error" -> [raised |-> FALSE, index |-> None]
      [] outcome = "invalid_json" -> [raised |-> FALSE, index |-> None]
      [] outcome = "timeout" -> [raised |-> TRUE, index |-> None]
      [] outcome = "undecodable" -> [raised |-> TRUE, index |-> None]
      [] outcome = "valid" -> [raised |-> FALSE, index |-> doc]

\* main, "if args.existing_index": with or without --existing-index
LoadLocal ==
    /\ pc = "start"
    /\ \E supplied \in BOOLEAN :
           LET r == load_existing_index(disk)
           IN  IF ~supplied
               THEN /\ local' = "not_supplied"
                    /\ index' = None
                    /\ pure' = FALSE
                    /\ pc' = "fetch"
               ELSE /\ local' = disk.kind
                    /\ index' = r.index
                    /\ pure' = (disk.kind = "valid" /\ disk.pure)
                    /\ pc' = IF r.raised THEN "aborted" ELSE "fetch"
    /\ UNCHANGED <<clock, disk, remote, prior, args, vstr, vtuple, vchan, manifest, out>>

\* main, "if index is None and args.fetch_url": with or without --fetch-url
Fetch ==
    /\ pc = "fetch"
    /\ \E supplied \in BOOLEAN, outcome \in FetchOutcomes, doc \in RemoteDocs :
           LET r == fetch_existing_index(outcome, doc)
           IN  IF index = None /\ supplied
               THEN /\ outcome # "valid" => doc = NoDoc
                    /\ remote' = [outcome |-> outcome, doc |-> doc]
                    /\ index' = r.index
                    /\ pc' = IF r.raised THEN "aborted" ELSE "create"
               ELSE /\ outcome = "valid" /\ doc = NoDoc
                    /\ remote' = NoFetch
                    /\ index' = index
                    /\ pc' = "create"
    /\ UNCHANGED <<clock, disk, pure, local, prior, args, vstr, vtuple, vchan, manifest, out>>

\* main, "if index is None"
CreateEmpty ==
    /\ pc = "create"
    /\ IF index = None
       THEN index' = create_empty_index(clock) /\ pure' = TRUE
       ELSE UNCHANGED <<index, pure>>
    /\ pc' = "update"
    /\ UNCHANGED <<clock, disk, local, remote, prior, args, vstr, vtuple, vchan, manifest, out>>

\* main, the call of update_index
Update ==
    /\ pc = "update"
    /\ \E version \in IndexVersions, p \in Payloads :
           \E r \in {update_index(index, version, p.git_tag, p.build_count,
                                  p.manifest_url, p.s3_url, clock)} :
               /\ prior' = index
               /\ args' = [version |-> version, payload |-> p]
               /\ index' = r.index
               /\ pc' = IF r.raised THEN "aborted" ELSE "write"
    /\ UNCHANGED <<clock, disk, pure, local, remote, vstr, vtuple, vchan, manifest, out>>

\* main, json.dump to --out, which is the file the next invocation loads
Write ==
    /\ pc = "write"
    /\ disk' = [kind |-> "valid", doc |-> index, pure |-> pure]
    /\ pc' = "done"
    /\ UNCHANGED <<clock, index, pure, local, remote, prior, args, vstr, vtuple, vchan, manifest, out>>

\* the next invocation of the program
Invoke ==
    /\ pc \in {"done", "aborted"}
    /\ clock < MaxRuns
    /\ clock' = clock + 1
    /\ pc' = "start"
    /\ index' = None
    /\ pure' = FALSE
    /\ local' = "not_supplied"
    /\ remote' = NoFetch
    /\ prior' = None
    /\ args' = NoArgs
    /\ UNCHANGED <<disk, vstr, vtuple, vchan, manifest, out>>

\* the two functions of a version string, applied to the string under check
ParseVersion ==
    /\ pc = "v_start"
    /\ vtuple' = parse_version_tuple(vstr)
    /\ vchan' = determine_channel(vstr)
    /\ pc' = "v_parsed"
    /\ UNCHANGED <<clock, disk, index, pure, local, remote, prior, args, vstr, manifest, out>>

\* main with neither --existing-index nor --fetch-url, for --version vstr
UpsertVersion ==
    /\ pc = "v_parsed"
    /\ \E p \in Payloads :
           LET empty == create_empty_index(clock)
               r == update_index(empty, vstr, p.git_tag, p.build_count,
                                 p.manifest_url, p.s3_url, clock)
           IN  /\ prior' = empty
               /\ args' = [version |-> vstr, payload |-> p]
               /\ index' = r.index
               /\ pure' = TRUE
               /\ pc' = IF r.raised THEN "aborted" ELSE "v_done"
    /\ UNCHANGED <<clock, disk, local, remote, vstr, vtuple, vchan, manifest, out>>

Next == LoadLocal \/ Fetch \/ CreateEmpty \/ Update \/ Write \/ Invoke

Spec == Init /\ [][Next]_vars

\* one version string, parsed, classified and upserted into an empty index
InitVersion ==
    /\ pc = "v_start"
    /\ clock = 1
    /\ disk = [kind |-> "missing", doc |-> NoDoc, pure |-> FALSE]
    /\ index = None
    /\ pure = FALSE
    /\ local = "not_supplied"
    /\ remote = NoFetch
    /\ prior = None
    /\ args = NoArgs
    /\ vstr \in VersionUniverse
    /\ vtuple = SentinelTuple
    /\ vchan = "dev"
    /\ manifest = None
    /\ out = None

NextVersion == ParseVersion \/ UpsertVersion

SpecVersion == InitVersion /\ [][NextVersion]_vars

(***************************************************************************)
(* Two invocations, one after the other on the same day, on an index that  *)
(* earlier invocations made of the empty index, one a day.                 *)
(***************************************************************************)
InitOrder ==
    /\ pc = "o_start"
    /\ clock = 1
    /\ disk = [kind |-> "missing", doc |-> NoDoc, pure |-> FALSE]
    /\ index = create_empty_index(1)
    /\ pure = TRUE
    /\ local = "not_supplied"
    /\ remote = NoFetch
    /\ prior = index
    /\ args = NoArgs
    /\ vstr = <<>>
    /\ vtuple = SentinelTuple
    /\ vchan = "dev"
    /\ manifest = None
    /\ out = None

\* an earlier invocation: update_index of one version, and the next day
UpsertPrior ==
    /\ pc = "o_start"
    /\ clock <= MaxPrior
    /\ \E version \in IndexVersions :
           \E r \in {update_index(index, version, PayloadA.git_tag, PayloadA.build_count,
                                  PayloadA.manifest_url, PayloadA.s3_url, clock)} :
               /\ index' = r.index
               /\ prior' = r.index
               /\ pc' = IF r.raised THEN "aborted" ELSE "o_start"
    /\ clock' = clock + 1
    /\ UNCHANGED <<disk, pure, local, remote, args, vstr, vtuple, vchan, manifest, out>>

\* the first update_index of the day: args keeps its version and payload
UpsertFirst ==
    /\ pc = "o_start"
    /\ \E version \in IndexVersions, p \in Payloads :
           \E r \in {update_index(index, version, p.git_tag, p.build_count,
                                  p.manifest_url, p.s3_url, clock)} :
               /\ args' = [version |-> version, payload |-> p]
               /\ index' = r.index
               /\ pc' = IF r.raised THEN "aborted" ELSE "o_first"
    /\ UNCHANGED <<clock, disk, pure, local, remote, prior, vstr, vtuple, vchan,
                   manifest, out>>

\* the second update_index of the day, with the second payload: vstr keeps its version
UpsertSecond ==
    /\ pc = "o_first"
    /\ \E version \in IndexVersions :
           \E r \in {update_index(index, version, PayloadB.git_tag, PayloadB.build_count,
                                  PayloadB.manifest_url, PayloadB.s3_url, clock)} :
               /\ vstr' = version
               /\ index' = r.index
               /\ pc' = IF r.raised THEN "aborted" ELSE "o_second"
    /\ UNCHANGED <<clock, disk, pure, local, remote, prior, args, vtuple, vchan,
                   manifest, out>>

NextOrder == UpsertPrior \/ UpsertFirst \/ UpsertSecond

SpecOrder == InitOrder /\ [][NextOrder]_vars

(***************************************************************************)
(* gen_release_manifest.py: JSON values, strings and files.                *)
(***************************************************************************)
\* what json.load gives: a dict, a str, a number or a list
JObject(members) == [type |-> "object", members |-> members]
JString(chars) == [type |-> "string", chars |-> chars]
JNumber(n) == [type |-> "number", num |-> n]
JArray(items) == [type |-> "array", items |-> items]

\* bool(v) of "if ... and data['manifest']"
Truthy(v) ==
    CASE v.type = "object" -> DOMAIN v.members # {}
      [] v.type = "string" -> v.chars # <<>>
      [] v.type = "number" -> v.num # 0
      [] v.type = "array" -> v.items # <<>>

\* dict.get(key, default)
Get(members, key, default) == IF HasKey(members, key) THEN members[key] ELSE default

\* the characters of file names, URLs and targets, in code point order
CodePoints == <<".", "/">> \o DigitChars \o <<":">> \o UpperChars \o <<"_">> \o LowerChars

\* a < b of two str
RECURSIVE StrBeforeFrom(_, _, _)
StrBeforeFrom(a, b, i) ==
    IF i > Len(b) THEN FALSE
    ELSE IF i > Len(a) THEN TRUE
    ELSE IF a[i] # b[i] THEN IndexIn(CodePoints, a[i]) < IndexIn(CodePoints, b[i])
    ELSE StrBeforeFrom(a, b, i + 1)

StrBefore(a, b) == StrBeforeFrom(a, b, 1)

\* the pattern of glob("*.px4")
Px4Suffix == <<".", "p", "x", "4">>

EndsWith(s, suffix) ==
    /\ Len(s) >= Len(suffix)
    /\ SubSeq(s, Len(s) - Len(suffix) + 1, Len(s)) = suffix

\* px4_dir.glob("*.px4")
Glob(px4_dir) == {f \in px4_dir.files : EndsWith(f.filename, Px4Suffix)}

\* sorted() of the paths of one directory: by file name
RECURSIVE SortedByName(_)
SortedByName(files) ==
    IF files = {} THEN <<>>
    ELSE LET first == CHOOSE f \in files :
                          \A g \in files \ {f} : StrBefore(f.filename, g.filename)
         IN  <<first>> \o SortedByName(files \ {first})

\* str.rstrip of one character, at most once
RStripOnce(s, c) ==
    IF s # <<>> /\ s[Len(s)] = c THEN SubSeq(s, 1, Len(s) - 1) ELSE s

\* str.rstrip(c): every trailing c is removed
RECURSIVE RStrip(_, _)
RStrip(s, c) ==
    IF s # <<>> /\ s[Len(s)] = c THEN RStrip(SubSeq(s, 1, Len(s) - 1), c) ELSE s

(***************************************************************************)
(* gen_release_manifest.py: extract_px4_metadata and                       *)
(* generate_release_manifest.                                              *)
(***************************************************************************)
RequiredFieldsMagicOnly == {"magic"}

\* "magic" not in data or "board_id" not in data or "image" not in data
RequiredFields == {"magic", "board_id", "image"}

\* extract_px4_metadata: None when the file is not JSON (JSONDecodeError) or not
\* UTF-8 (caught by "except Exception"), when the JSON value is not a dict (the
\* membership test fails or raises, or data.get raises; all inside the try), and
\* when a required field is missing; the metadata otherwise
extract_px4_metadata(px4_path) ==
    IF px4_path.text # "json" THEN None
    ELSE IF px4_path.data.type # "object" THEN None
    ELSE IF ~(RequiredFields \subseteq DOMAIN px4_path.data.members) THEN None
    ELSE LET data == px4_path.data.members
             metadata ==
                 [filename |-> px4_path.filename,
                  board_id |-> Get(data, "board_id", JNumber(0)),
                  board_revision |-> Get(data, "board_revision", JNumber(0)),
                  version |-> Get(data, "version", JString(<<>>)),
                  git_identity |-> Get(data, "git_identity", JString(<<>>)),
                  git_hash |-> Get(data, "git_hash", JString(<<>>)),
                  build_time |-> Get(data, "build_time", JNumber(0)),
                  image_size |-> Get(data, "image_size", JNumber(0)),
                  sha256sum |-> Get(data, "sha256sum", JString(<<>>)),
                  mav_autopilot |-> Get(data, "mav_autopilot", JNumber(12))]
         IN  IF HasKey(data, "manifest") /\ Truthy(data.manifest)
             THEN SetKey(metadata, "manifest", data.manifest)
             ELSE metadata

\* the loop of generate_release_manifest over px4_files: builds after it
RECURSIVE BuildsFrom(_, _, _)
BuildsFrom(px4_files, base_url, builds) ==
    IF px4_files = <<>> THEN builds
    ELSE LET metadata == extract_px4_metadata(Head(px4_files))
             url == RStrip(base_url, "/") \o <<"/">> \o metadata.filename
             entry == IF base_url # <<>> THEN SetKey(metadata, "url", url) ELSE metadata
         IN  BuildsFrom(Tail(px4_files), base_url,
                        IF metadata # None THEN Append(builds, entry) ELSE builds)

\* b.get("manifest", {}).get(...) raises AttributeError when the manifest is no dict
BuildKeyRaises(b) == HasKey(b, "manifest") /\ b.manifest.type # "object"

\* b.get("manifest", {}).get("target", b["filename"])
BuildKey(b) ==
    IF HasKey(b, "manifest") THEN Get(b.manifest.members, "target", JString(b.filename))
    ELSE JString(b.filename)

\* x < y is defined: two str or two numbers (the model has no list as a target)
Comparable(x, y) ==
    \/ x.type = "string" /\ y.type = "string"
    \/ x.type = "number" /\ y.type = "number"

\* x < y of two keys
KeyLess(x, y) ==
    IF x.type = "string" THEN StrBefore(x.chars, y.chars) ELSE x.num < y.num

\* builds.sort(key=...) raises: a key cannot be computed (AttributeError), or two
\* keys cannot be compared (TypeError); a sort compares every key with another
\* one, and across any split of the keys in two
SortBuildsRaises(builds) ==
    \/ \E i \in DOMAIN builds : BuildKeyRaises(builds[i])
    \/ \E i, j \in DOMAIN builds : i # j /\ ~Comparable(BuildKey(builds[i]), BuildKey(builds[j]))

\* the place of one build in a list sorted by ascending key, behind equal keys
RECURSIVE InsertAscending(_, _)
InsertAscending(sorted, b) ==
    IF sorted = <<>> THEN <<b>>
    ELSE IF KeyLess(BuildKey(b), BuildKey(Head(sorted))) THEN <<b>> \o sorted
    ELSE <<Head(sorted)>> \o InsertAscending(Tail(sorted), b)

RECURSIVE SortBuildsFrom(_, _, _)
SortBuildsFrom(builds, i, sorted) ==
    IF i > Len(builds) THEN sorted
    ELSE SortBuildsFrom(builds, i + 1, InsertAscending(sorted, builds[i]))

\* builds.sort(key=...): stable, ascending
SortBuilds(builds) == SortBuildsFrom(builds, 1, <<>>)

\* generate_release_manifest: [raised |-> the sort raised, manifest |-> its result]
generate_release_manifest(px4_dir, version, git_tag, base_url, now) ==
    LET px4_files == SortedByName(Glob(px4_dir))
        builds == BuildsFrom(px4_files, base_url, <<>>)
        sorted == SortBuilds(builds)
    IN  IF SortBuildsRaises(builds) THEN [raised |-> TRUE, manifest |-> None]
        ELSE [raised |-> FALSE,
              manifest |-> [format_version |-> 1, generated_at |-> now,
                            version |-> version, git_tag |-> git_tag,
                            build_count |-> Len(sorted), builds |-> sorted]]

(***************************************************************************)
(* gen_release_manifest.py: inputs.                                        *)
(***************************************************************************)
\* the number of files in the directory
MaxFiles == 2

\* file names: three artifacts and a file the pattern does not match
FileNames ==
    {<<"a">> \o Px4Suffix, <<"b">> \o Px4Suffix, <<"c">> \o Px4Suffix,
     <<"d", ".", "b", "i", "n">>}

\* the fields of a valid artifact
ValidFields ==
    [magic |-> JString(<<"P", "X", "4">>), board_id |-> JNumber(50),
     image |-> JString(<<"x">>), version |-> JString(V_1_2_3)]

\* without one key
Without(members, key) == [k \in (DOMAIN members) \ {key} |-> members[k]]

Json(value) == [text |-> "json", data |-> value]

\* what a file may hold: valid artifacts without and with a manifest (a dict with a
\* str target, an empty dict, a dict with a number as target, a str), a list, objects
\* without a required field, text that is not JSON, bytes that are not UTF-8
FileContents ==
    {Json(JObject(ValidFields)),
     Json(JObject(SetKey(ValidFields, "manifest", JObject([target |-> JString(<<"z", "z">>)])))),
     Json(JObject(SetKey(ValidFields, "manifest", JObject(<<>>)))),
     Json(JObject(SetKey(ValidFields, "manifest", JObject([target |-> JNumber(5)])))),
     Json(JObject(SetKey(ValidFields, "manifest", JString(<<"x">>)))),
     Json(JArray(<<JString(<<"m">>)>>)),
     Json(JObject(Without(ValidFields, "magic"))),
     Json(JObject(Without(ValidFields, "board_id"))),
     Json(JObject(Without(ValidFields, "image"))),
     [text |-> "invalid_json", data |-> JObject(<<>>)],
     [text |-> "undecodable", data |-> JObject(<<>>)]}

\* the files a directory may hold
Files ==
    {[filename |-> name, text |-> c.text, data |-> c.data] :
        name \in FileNames, c \in FileContents}

\* the sets of at most n files with different names
RECURSIVE FileSets(_)
FileSets(n) ==
    IF n = 0 THEN {{}}
    ELSE LET smaller == FileSets(n - 1)
         IN  smaller \cup
             UNION {{fs \cup {f} :
                        f \in {g \in Files : \A h \in fs : h.filename # g.filename}} :
                    fs \in smaller}

\* the values of --dir: a path that is no directory, and directories
Dirs ==
    {[is_dir |-> FALSE, files |-> {}]}
        \cup {[is_dir |-> TRUE, files |-> fs] : fs \in FileSets(MaxFiles)}

\* the values of --base-url
BaseUrls ==
    {<<>>, <<"u">>, <<"u", "/">>, <<"u", "/", "/">>, <<"/">>}

(***************************************************************************)
(* gen_release_manifest.py: main.                                          *)
(***************************************************************************)
InitManifest ==
    /\ pc = "m_start"
    /\ clock = 1
    /\ disk = [kind |-> "missing", doc |-> NoDoc, pure |-> FALSE]
    /\ index = None
    /\ pure = FALSE
    /\ local = "not_supplied"
    /\ remote = NoFetch
    /\ prior = None
    /\ \E d \in Dirs, u \in BaseUrls :
           args = [dir |-> d, base_url |-> u, version |-> V_1_2_3, git_tag |-> V_1_2_3]
    /\ vstr = <<>>
    /\ vtuple = SentinelTuple
    /\ vchan = "dev"
    /\ manifest = None
    /\ out = None

\* main, "if not args.dir.is_dir()" and the call of generate_release_manifest
Generate ==
    /\ pc = "m_start"
    /\ IF ~args.dir.is_dir
       THEN /\ pc' = "m_exit_1"
            /\ UNCHANGED manifest
       ELSE LET r == generate_release_manifest(args.dir, args.version, args.git_tag,
                                               args.base_url, clock)
            IN  /\ manifest' = r.manifest
                /\ pc' = IF r.raised THEN "aborted" ELSE "m_generated"
    /\ UNCHANGED <<clock, disk, index, pure, local, remote, prior, args, vstr, vtuple,
                   vchan, out>>

\* main, json.dumps and the write to --out or the print
Emit ==
    /\ pc = "m_generated"
    /\ out' = manifest
    /\ pc' = "m_done"
    /\ UNCHANGED <<clock, disk, index, pure, local, remote, prior, args, vstr, vtuple,
                   vchan, manifest>>

NextManifest == Generate \/ Emit

SpecManifest == InitManifest /\ [][NextManifest]_vars

(***************************************************************************)
(* The grammar of section 4.3, stated by where a string is cut: an         *)
(* optional "v", MAJOR "." MINOR "." PATCH, and then nothing or            *)
(* "-" TAG [NUM].                                                          *)
(***************************************************************************)
AllIn(s, class) == \A i \in DOMAIN s : s[i] \in class
IsNumber(s) == Len(s) >= 1 /\ AllIn(s, Digit)
IsTag(s) == Len(s) >= 1 /\ AllIn(s, Letter)
Positions(s, c) == {i \in DOMAIN s : s[i] = c}

\* [p, d1, d2, h, t]: p characters of "v", the two dots, the dash (past the end when
\* there is no suffix) and the last character of TAG
GrammarCuts(s) ==
    {c \in [p : {0, 1}, d1 : Positions(s, "."), d2 : Positions(s, "."),
            h : Positions(s, "-") \cup {Len(s) + 1}, t : 1..(Len(s) + 1)] :
        /\ c.p = 1 => (Len(s) >= 1 /\ s[1] = "v")
        /\ c.p < c.d1 /\ c.d1 < c.d2 /\ c.d2 < c.h
        /\ IsNumber(SubSeq(s, c.p + 1, c.d1 - 1))
        /\ IsNumber(SubSeq(s, c.d1 + 1, c.d2 - 1))
        /\ IsNumber(SubSeq(s, c.d2 + 1, c.h - 1))
        /\ IF c.h = Len(s) + 1 THEN c.t = c.h
           ELSE /\ c.h < c.t /\ c.t <= Len(s)
                /\ IsTag(SubSeq(s, c.h + 1, c.t))
                /\ c.t = Len(s) \/ IsNumber(SubSeq(s, c.t + 1, Len(s)))}

InGrammar(s) == GrammarCuts(s) # {}

\* the value of a decimal numeral, from its last digit
RECURSIVE DecimalValue(_)
DecimalValue(s) ==
    IF s = <<>> THEN 0
    ELSE 10 * DecimalValue(SubSeq(s, 1, Len(s) - 1))
         + (CHOOSE n \in 0..9 : DigitChars[n + 1] = s[Len(s)])

\* what the grammar makes of a string: its five fields, or the sentinel
GrammarTuple(s) ==
    IF ~InGrammar(s) THEN SentinelTuple
    ELSE LET c == CHOOSE c \in GrammarCuts(s) : TRUE
             tag == SubSeq(s, c.h + 1, c.t)
             num == SubSeq(s, c.t + 1, Len(s))
         IN  <<DecimalValue(SubSeq(s, c.p + 1, c.d1 - 1)),
               DecimalValue(SubSeq(s, c.d1 + 1, c.d2 - 1)),
               DecimalValue(SubSeq(s, c.d2 + 1, c.h - 1)),
               IF tag = <<>> THEN TagZzz ELSE LowerStr(tag),
               IF num = <<>> THEN 0 ELSE DecimalValue(num)>>

\* MAJOR.MINOR.PATCH with nothing after it
HasNoSuffix(s) == \E c \in GrammarCuts(s) : c.h = Len(s) + 1

\* MAJOR.MINOR.PATCH-TAG[NUM]
HasPrerelease(s) == \E c \in GrammarCuts(s) : c.h <= Len(s)

GrammarCore(s) == SubSeq(GrammarTuple(s), 1, 3)

CoreLess(a, b) ==
    \/ a[1] < b[1]
    \/ a[1] = b[1] /\ a[2] < b[2]
    \/ a[1] = b[1] /\ a[2] = b[2] /\ a[3] < b[3]

\* t occurs in s, in any letter case
OccursAnyCase(s, t) ==
    \E i \in 1..(Len(s) - Len(t) + 1) : \A k \in 1..Len(t) : LowerChar(s[i + k - 1]) = t[k]

\* the three rules of section 4.4, in order
RuleChannel(s) ==
    IF HasNoSuffix(s) THEN "stable"
    ELSE IF OccursAnyCase(s, <<"-", "b", "e", "t", "a">>) \/ OccursAnyCase(s, <<"-", "r", "c">>)
         THEN "beta"
    ELSE "dev"

(***************************************************************************)
(* Properties.                                                             *)
(***************************************************************************)
\* update_index has returned: prior and args hold what it was given, index its result
Updated == pc \in {"write", "done"}

Payload == args.payload

Versioned(releases) == {i \in DOMAIN releases : HasKey(releases[i], "version")}

WithVersion(releases, version) ==
    {i \in Versioned(releases) : releases[i].version = version}

NoDuplicateVersions(releases) ==
    \A i, j \in Versioned(releases) : releases[i].version = releases[j].version => i = j

SortedDescending(releases) ==
    \A i \in 1..(Len(releases) - 1) :
        ~TupleLess(SortKey(releases[i]), SortKey(releases[i + 1]))

\* C1: applying update_index a second time, with the same arguments and the same
\* reading of the clock, to the index it returned gives that index again: the same
\* releases in the same order, the same latest_* fields, updated_at and other keys.
C1_Idempotent ==
    Updated =>
        \A again \in {update_index(index, args.version, Payload.git_tag,
                                    Payload.build_count, Payload.manifest_url,
                                    Payload.s3_url, clock)} :
            ~again.raised /\ again.index = index

\* C1, its case: the prior index came from a file, repeats a version, and carries a
\* latest_* field; the upserted version parses to the tuple of the repeated one
C1_Witness ==
    /\ Updated
    /\ local = "valid"
    /\ ~NoDuplicateVersions(prior.releases)
    /\ args.version = V_1_2_3_bare
    /\ Len(index.releases) = 3

\* C2: after update_index, latest_<ch> is present exactly when a release of the
\* result has channel ch, and is then the version of the first such release; a
\* latest_<ch> of the prior index does not survive a result with no release of ch.
C2_LatestExact ==
    Updated =>
        \A i \in DOMAIN ChannelOrder :
            LET ch == ChannelOrder[i]
                of_ch == ChannelReleases(index.releases, ch)
            IN  /\ HasKey(index, LatestKey(ch)) <=> of_ch # <<>>
                /\ of_ch # <<>> => index[LatestKey(ch)] = of_ch[1].version

\* C3: an index that began empty and saw update_index only, in memory or in the
\* file, never holds two releases of the same version.
C3_OneEntryPerVersion ==
    /\ (pure /\ index # None) => NoDuplicateVersions(index.releases)
    /\ (disk.kind = "valid" /\ disk.pure) => NoDuplicateVersions(disk.doc.releases)

\* C3, its case: an index that began empty was written, loaded again, and the
\* version it holds was upserted again
C3_Witness ==
    /\ Updated
    /\ pure
    /\ WithVersion(prior.releases, args.version) # {}
    /\ Payload # [git_tag |-> prior.releases[1].git_tag,
                  build_count |-> prior.releases[1].build_count,
                  manifest_url |-> prior.releases[1].manifest_url,
                  s3_url |-> IF HasKey(prior.releases[1], "s3_manifest_url")
                             THEN prior.releases[1].s3_manifest_url ELSE ""]

\* C4: when the prior index holds the upserted version, the result holds exactly one
\* release of it, which carries the new git_tag, build_count and manifest_url, and
\* an s3_manifest_url exactly when the new one is not empty; the other releases are
\* as many as before, so that with the one prior release of the version that the
\* data model allows the number of releases is unchanged.
C4_ReplaceByVersion ==
    LET was == WithVersion(prior.releases, args.version)
        now == WithVersion(index.releases, args.version)
    IN  (Updated /\ was # {}) =>
            /\ Cardinality(now) = 1
            /\ Len(index.releases) = Len(prior.releases) - Cardinality(was) + 1
            /\ \A i \in now :
                   /\ index.releases[i].git_tag = Payload.git_tag
                   /\ index.releases[i].build_count = Payload.build_count
                   /\ index.releases[i].manifest_url = Payload.manifest_url
                   /\ HasKey(index.releases[i], "s3_manifest_url") <=> Payload.s3_url # ""
                   /\ Payload.s3_url # "" =>
                          index.releases[i].s3_manifest_url = Payload.s3_url

\* C4, its case: the one prior release of the version has an s3_manifest_url, the
\* new upsert supplies none, and the number of releases is the same
C4_Witness ==
    LET was == WithVersion(prior.releases, args.version)
    IN  /\ Updated
        /\ Cardinality(was) = 1
        /\ \A i \in was : HasKey(prior.releases[i], "s3_manifest_url")
        /\ Payload.s3_url = ""
        /\ Len(index.releases) = Len(prior.releases)
        /\ Len(index.releases) = 2

\* C5: after update_index the releases are in non-increasing order of the tuple of
\* their version (of "" for a release without a version), whatever the order of the
\* prior index was.
C5_SortedNewestFirst == Updated => SortedDescending(index.releases)

\* C5, its case: the prior index was out of order and held a release without a version
C5_Witness ==
    /\ Updated
    /\ ~SortedDescending(prior.releases)
    /\ Versioned(prior.releases) # DOMAIN prior.releases
    /\ Len(index.releases) = 3

\* C6: of two releases with the same MAJOR.MINOR.PATCH, one without a suffix and one
\* with a suffix -TAG[NUM] of any letters, the one without has the greater tuple and
\* comes first; a release with a greater (major, minor, patch) comes before one with
\* a smaller, whatever their suffixes.
C6_StableAbovePrerelease ==
    Updated =>
        \A i, j \in Versioned(index.releases) :
            LET a == index.releases[i].version
                b == index.releases[j].version
            IN  /\ (HasNoSuffix(a) /\ HasPrerelease(b) /\ GrammarCore(a) = GrammarCore(b)) =>
                       /\ TupleLess(parse_version_tuple(b), parse_version_tuple(a))
                       /\ i < j
                /\ (InGrammar(a) /\ InGrammar(b) /\ CoreLess(GrammarCore(b), GrammarCore(a))) =>
                       i < j

\* C7: after update_index no release whose version is outside the grammar comes
\* before a release whose version is inside it.
C7_UnparseableLast ==
    Updated =>
        \A i, j \in Versioned(index.releases) :
            (i < j /\ ~InGrammar(index.releases[i].version)) =>
                ~InGrammar(index.releases[j].version)

\* the two functions have been applied to the string under check
Parsed == pc \in {"v_parsed", "v_done"}

\* C8: parse_version_tuple gives the five fields of a string that is in the grammar
\* as a whole, and the sentinel (0, 0, 0, "zzz", 0) for every other string.
C8_GrammarExact == Parsed => vtuple = GrammarTuple(vstr)

\* C9: determine_channel gives one of the three channels by the three rules in
\* order, and the release update_index writes for a version has that channel.
C9_ChannelRules ==
    /\ Parsed => vchan = RuleChannel(vstr)
    /\ pc = "v_done" =>
           /\ Len(index.releases) = 1
           /\ index.releases[1].channel = RuleChannel(vstr)

\* C10: the index handed to update_index is the document of the file if it loaded,
\* else the fetched document if it loaded, else a new empty index; the fetch is
\* attempted only when the file gave nothing; and no run ends before it has
\* written its output.
C10_SourcePrecedence ==
    /\ pc = "update" =>
           index = IF local = "valid" THEN disk.doc
                   ELSE IF remote.outcome = "valid" THEN remote.doc
                   ELSE create_empty_index(clock)
    /\ remote.outcome # "not_attempted" => local # "valid"
    /\ pc # "aborted"

\* the fetch was attempted and did not give a document
FetchFailed == remote.outcome \in FetchOutcomes \ {"valid"}

\* C11: whatever makes the fetch of the existing index fail, fetch_existing_index
\* returns None, the run goes on with a new empty index and ends with status 0.
C11_FetchDegrades ==
    FetchFailed =>
        /\ pc # "aborted"
        /\ pc = "create" => index = None
        /\ pc = "update" => index = create_empty_index(clock)

\* the first update_index on an index made of the empty index has returned
UpsertedOnce == pc = "o_first"

\* the second one has returned
UpsertedTwice == pc = "o_second"

\* the channel of the upserted version
NewChannel == determine_channel(args.version)

\* update_index left latest_<ch> of every channel but that of the new version as it was
OtherLatestKept ==
    \A i \in DOMAIN ChannelOrder :
        LET k == LatestKey(ChannelOrder[i])
        IN  ChannelOrder[i] # NewChannel =>
                /\ HasKey(index, k) <=> HasKey(prior, k)
                /\ HasKey(prior, k) => index[k] = prior[k]

\* the new version parses to a tuple above that of the prior release i
Outranks(i) == TupleLess(SortKey(prior.releases[i]), parse_version_tuple(args.version))

\* C12 as stated: on an index that began empty and saw update_index only, the
\* latest_* of the other channels stay as they were, and latest_<c> is the new
\* version exactly when its tuple is strictly above that of every prior release of
\* channel c, the prior release of the same version included.
C12_LatestAboveEvery ==
    UpsertedOnce =>
        /\ OtherLatestKept
        /\ index[LatestKey(NewChannel)] = args.version
               <=> \A i \in DOMAIN prior.releases :
                       prior.releases[i].channel = NewChannel => Outranks(i)

\* C12: on an index that began empty and saw update_index only, the latest_* of the
\* other channels stay as they were, and latest_<c> is the new version exactly when
\* its tuple is strictly above that of every prior release of channel c with another
\* version; the prior release of the same version is replaced and does not count.
C12_LatestFrame ==
    UpsertedOnce =>
        /\ OtherLatestKept
        /\ index[LatestKey(NewChannel)] = args.version
               <=> \A i \in DOMAIN prior.releases :
                       (/\ prior.releases[i].channel = NewChannel
                        /\ prior.releases[i].version # args.version) => Outranks(i)

\* C12, its case: the newest stable release is upserted again while the index holds
\* a beta release; latest_stable is that version and latest_beta is as before
C12_Witness ==
    /\ UpsertedOnce
    /\ WithVersion(prior.releases, args.version) # {}
    /\ NewChannel = "stable"
    /\ index.latest_stable = args.version
    /\ HasKey(prior, "latest_beta")
    /\ index.latest_beta = prior.latest_beta

\* the number of times x occurs in the sequence
Count(releases, x) == Cardinality({i \in DOMAIN releases : releases[i] = x})

\* the prior releases whose version is not the upserted one
OtherPrior ==
    {i \in DOMAIN prior.releases : i \notin WithVersion(prior.releases, args.version)}

\* the top-level keys update_index may write
ManagedKeys == {"releases", "updated_at", "latest_stable", "latest_beta", "latest_dev"}

\* the new and the replaced top-level values aside, the two indexes have the same keys
\* with the same values
SameOtherKeys(before, after) ==
    /\ (DOMAIN before) \ ManagedKeys = (DOMAIN after) \ ManagedKeys
    /\ \A k \in (DOMAIN before) \ ManagedKeys : after[k] = before[k]

\* C16: whatever the prior index, update_index keeps every prior release of another
\* version, with all its fields and as many times as it occurred, the result holds
\* nothing but these and the one new release, and the top-level keys other than
\* releases, updated_at and latest_* are those of the prior index with their values.
C16_UpsertFrame ==
    Updated =>
        /\ \A i \in OtherPrior :
               Count(index.releases, prior.releases[i])
                   = Cardinality({j \in OtherPrior : prior.releases[j] = prior.releases[i]})
        /\ Cardinality(WithVersion(index.releases, args.version)) = 1
        /\ \A j \in WithVersion(index.releases, args.version) :
               /\ index.releases[j].git_tag = Payload.git_tag
               /\ index.releases[j].build_count = Payload.build_count
               /\ index.releases[j].manifest_url = Payload.manifest_url
               /\ index.releases[j].release_date = clock
        /\ Len(index.releases) = Cardinality(OtherPrior) + 1
        /\ SameOtherKeys(prior, index)

\* C16, its case: the prior index came from a file with a key the program does not
\* know, a release of the upserted version and a release of another version
C16_Witness ==
    /\ Updated
    /\ HasKey(prior, "note")
    /\ WithVersion(prior.releases, args.version) # {}
    /\ OtherPrior # {}
    /\ HasKey(index, "note")

\* update_index of one version and payload on the present day
Upsert(idx, version, p) ==
    update_index(idx, version, p.git_tag, p.build_count, p.manifest_url, p.s3_url,
                 clock).index

\* the two indexes agree on every latest_* field
SameLatest(x, y) ==
    \A i \in DOMAIN ChannelOrder :
        LET k == LatestKey(ChannelOrder[i])
        IN  /\ HasKey(x, k) <=> HasKey(y, k)
            /\ HasKey(x, k) => x[k] = y[k]

\* the one release of version first stands before the one release of version second
Before(releases, first, second) ==
    /\ Cardinality(WithVersion(releases, first)) = 1
    /\ Cardinality(WithVersion(releases, second)) = 1
    /\ \A i \in WithVersion(releases, first), j \in WithVersion(releases, second) : i < j

\* the index after the two upserts in the other order: the second entry first
OtherOrder == Upsert(Upsert(prior, vstr, PayloadB), args.version, Payload)

\* C17: on an index made of the empty index, upserting a and then b gives the
\* releases and the latest_* fields of upserting b and then a when their versions
\* parse to different tuples; when two different versions parse to the same tuple
\* both are kept and the one upserted first stands first.
C17_OrderIndependent ==
    UpsertedTwice =>
        \A other \in {OtherOrder} :
            /\ parse_version_tuple(vstr) # parse_version_tuple(args.version) =>
                   /\ index.releases = other.releases
                   /\ SameLatest(index, other)
            /\ (/\ parse_version_tuple(vstr) = parse_version_tuple(args.version)
                /\ vstr # args.version) =>
                   /\ Before(index.releases, args.version, vstr)
                   /\ Before(other.releases, vstr, args.version)

\* C17, its case: the index holds two releases, the first upserted version parses
\* to the tuple of one of them, and the second to another tuple
C17_Witness ==
    /\ UpsertedTwice
    /\ Len(prior.releases) = 2
    /\ args.version = V_1_2_3_bare
    /\ WithVersion(prior.releases, V_1_2_3) # {}
    /\ vstr = V_1_10_0
    /\ Len(index.releases) = 4

(***************************************************************************)
(* Properties of gen_release_manifest.py.                                  *)
(***************************************************************************)
\* generate_release_manifest returned
Generated == pc \in {"m_generated", "m_done"}

\* the artifact files of the directory
Artifacts == {f \in args.dir.files : EndsWith(f.filename, Px4Suffix)}

\* the file is a JSON object with the three required fields
Extractable(f) ==
    /\ f.text = "json"
    /\ f.data.type = "object"
    /\ {"magic", "board_id", "image"} \subseteq DOMAIN f.data.members

Passing == {f \in Artifacts : Extractable(f)}

\* one build for each file that passes extraction, and no other
OneBuildPerPassing(builds) ==
    /\ Len(builds) = Cardinality(Passing)
    /\ {builds[i].filename : i \in DOMAIN builds} = {f.filename : f \in Passing}

\* C13: whatever the artifact files hold (a valid artifact, with or without a
\* manifest of any JSON value, text that is not JSON, an object without a required
\* field), the generation completes, and its builds are one for each file that
\* passes extraction.
C13_NeverAborts ==
    /\ pc # "aborted"
    /\ Generated => OneBuildPerPassing(manifest.builds)

\* C14: the manifest in memory and the one emitted have build_count equal to the
\* length of builds and to the number of artifact files that passed extraction; a
\* directory without artifact files raises no error and gives build_count 0 and no
\* builds.
C14_BuildCount ==
    /\ Generated =>
           /\ manifest.build_count = Len(manifest.builds)
           /\ manifest.build_count = Cardinality(Passing)
    /\ pc = "m_done" =>
           /\ out.build_count = Len(out.builds)
           /\ out.build_count = Cardinality(Passing)
    /\ (args.dir.is_dir /\ Artifacts = {}) =>
           /\ pc \notin {"aborted", "m_exit_1"}
           /\ Generated => manifest.build_count = 0 /\ manifest.builds = <<>>

\* C14, its case: of two artifact files one fails extraction, and the manifest with
\* the one build was emitted
C14_Witness ==
    /\ pc = "m_done"
    /\ Cardinality(Artifacts) = 2
    /\ Cardinality(Passing) = 1
    /\ out.build_count = 1

\* every build has the url made of the prefix, one slash and its file name
UrlsAre(prefix) ==
    \A i \in DOMAIN manifest.builds :
        /\ HasKey(manifest.builds[i], "url")
        /\ manifest.builds[i].url = prefix \o <<"/">> \o manifest.builds[i].filename

NoUrls == \A i \in DOMAIN manifest.builds : ~HasKey(manifest.builds[i], "url")

\* the base URL without its last character when that is a slash
OneSlashRemoved(base) ==
    IF base # <<>> /\ base[Len(base)] = "/" THEN SubSeq(base, 1, Len(base) - 1) ELSE base

\* the length of the base URL without any of its trailing slashes
SlashesRemoved(base) ==
    {k \in 0..Len(base) :
        /\ k = 0 \/ base[k] # "/"
        /\ \A j \in (k + 1)..Len(base) : base[j] = "/"}

\* C15 as stated: with a base URL every url is the base URL without one trailing
\* slash, then a slash and the file name, so that of two trailing slashes one stays;
\* without a base URL no build has a url.
C15_OneSlashStripped ==
    Generated =>
        IF args.base_url = <<>> THEN NoUrls ELSE UrlsAre(OneSlashRemoved(args.base_url))

\* C15: with a base URL every url is the base URL without any of its trailing
\* slashes, then one slash and the file name; without a base URL no build has a url.
C15_UrlFromBase ==
    Generated =>
        IF args.base_url = <<>> THEN NoUrls
        ELSE \E k \in SlashesRemoved(args.base_url) : UrlsAre(SubSeq(args.base_url, 1, k))

\* C15, its case: the base URL ends in two slashes and a build got its url
C15_Witness ==
    /\ Generated
    /\ Len(args.base_url) >= 2
    /\ args.base_url[Len(args.base_url)] = "/"
    /\ args.base_url[Len(args.base_url) - 1] = "/"
    /\ manifest.builds # <<>>
    /\ HasKey(manifest.builds[1], "url")
====
